---------------------------- MODULE Spec2Model ----------------------------
(***************************************************************************)
(* A model of src/app.py, the layoffs dashboard: the value normalizers     *)
(* (clean_funds, normalize_month), the dataset clean-up that runs once on  *)
(* load, and the filter / summary pass that runs on every interaction.     *)
(*                                                                         *)
(* Python values are records [t, m, e, s]:                                 *)
(*   t = "num"    the number m * 10^e (kept normalised: m has no trailing  *)
(*                zero, and zero is m = 0, e = 0); float rounding is not   *)
(*                modelled, decimal arithmetic is exact                    *)
(*   t = "str"    the text s, a sequence of characters (one string each)   *)
(*   t = "nan"    a missing value (NaN / None read from the table)         *)
(*   t = "inf"    the float infinity (m = 1) or -infinity (m = -1)         *)
(*   t = "other"  a value that is neither text nor number (a list, ...)    *)
(*   t = "raise"  not a value: the call raised, s names the exception      *)
(***************************************************************************)
EXTENDS Integers, Sequences, FiniteSets, TLC

VARIABLES
    pc,        \* where the script (or the function under test) stands
    value,     \* the argument of the normalizer under test
    ret,       \* what the normalizer returned, or the exception that was raised
    raw,       \* the table as read from reports/cleaned_layoffs.csv
    df,        \* the dataset `df` of the script
    sel,       \* the sidebar selection: from_year, to_year, industry, country
    view       \* what one pass of the script shows for `sel`

vars == <<pc, value, ret, raw, df, sel, view>>

-----------------------------------------------------------------------------
(* Bounds of the model.                                                    *)

\* longest text handed to a normalizer, in characters
MaxLen == 4

\* most rows of a source table handed to the clean-up
MaxRawRows == 1

\* most rows of the normalized dataset behind the dashboard
MaxRows == 2

-----------------------------------------------------------------------------
(* Python values.                                                          *)

Val(t, m, e, s) == [t |-> t, m |-> m, e |-> e, s |-> s]

NaN == Val("nan", 0, 0, <<>>)
Inf == Val("inf", 1, 0, <<>>)
Other == Val("other", 0, 0, <<>>)
Str(s) == Val("str", 0, 0, s)
Raised(exc) == Val("raise", 0, 0, <<exc>>)

RECURSIVE Normalise(_, _)
Normalise(m, e) ==
    IF m = 0 THEN <<0, 0>>
    ELSE IF m % 10 = 0 THEN Normalise(m \div 10, e + 1)
    ELSE <<m, e>>

\* the number m * 10^e
Num(m, e) == LET n == Normalise(m, e) IN Val("num", n[1], n[2], <<>>)
IntNum(n) == Num(n, 0)

IsNum(v) == v.t = "num"
IsRaise(v) == v.t = "raise"

RECURSIVE Pow10(_)
Pow10(k) == IF k = 0 THEN 1 ELSE 10 * Pow10(k - 1)

\* x * 10^k for a number x (k >= 0)
Scale(x, k) == Num(x.m, x.e + k)

\* int(x) of a number: truncation toward zero
Trunc(x) ==
    IF x.e >= 0 THEN x.m * Pow10(x.e)
    ELSE IF x.m >= 0 THEN x.m \div Pow10(-x.e)
    ELSE -((-x.m) \div Pow10(-x.e))

IsIntegral(x) == IsNum(x) /\ x.e >= 0

\* x < 0, x > 0 of a number
IsNegative(x) == x.m < 0
IsPositive(x) == x.m > 0

-----------------------------------------------------------------------------
(* Python text: str methods and the regular expression of clean_funds.     *)

Digits == {"0", "1", "2", "3", "4", "5", "6", "7", "8", "9"}
DigitVal(c) ==
    CASE c = "0" -> 0 [] c = "1" -> 1 [] c = "2" -> 2 [] c = "3" -> 3
      [] c = "4" -> 4 [] c = "5" -> 5 [] c = "6" -> 6 [] c = "7" -> 7
      [] c = "8" -> 8 [] c = "9" -> 9

\* characters str.isdigit() accepts and int() rejects; "^2" stands for the one
\* character U+00B2, superscript two
SuperDigits == {"^2"}
Whitespace == {" "}

\* s.replace(c, '')
Remove(s, c) == SelectSeq(s, LAMBDA x : x # c)

RECURSIVE LStrip(_)
LStrip(s) == IF s # <<>> /\ Head(s) \in Whitespace THEN LStrip(Tail(s)) ELSE s

RECURSIVE RStrip(_)
RStrip(s) ==
    IF s # <<>> /\ s[Len(s)] \in Whitespace
    THEN RStrip(SubSeq(s, 1, Len(s) - 1)) ELSE s

\* s.strip()
Strip(s) == RStrip(LStrip(s))

\* s.upper(), on the letters the suffix can be
Upper(c) ==
    CASE c = "k" -> "K" [] c = "m" -> "M" [] c = "b" -> "B" [] OTHER -> c

\* the length of the longest prefix of s whose characters are all in set
RECURSIVE Span(_, _)
Span(s, set) ==
    IF s # <<>> /\ Head(s) \in set THEN 1 + Span(Tail(s), set) ELSE 0

Drop(s, n) == SubSeq(s, n + 1, Len(s))
Take(s, n) == SubSeq(s, 1, n)

Count(s, c) == Len(SelectSeq(s, LAMBDA x : x = c))

\* the digits of s read as a base-10 integer
RECURSIVE DigitsValue(_)
DigitsValue(s) ==
    IF s = <<>> THEN 0
    ELSE 10 * DigitsValue(Take(s, Len(s) - 1)) + DigitVal(s[Len(s)])

\* float(s) for s made of digits and dots, as the regular expression hands it
\* over: "12.3", "1." and ".5" are literals; ".", "1.2.3" and "1..2" raise
Float(s) ==
    IF Count(s, ".") > 1 \/ Len(Remove(s, ".")) = 0
    THEN Raised("ValueError")
    ELSE LET dot == Span(s, Digits)
             decimals == IF Count(s, ".") = 0 THEN 0 ELSE Len(s) - dot - 1
         IN  Num(DigitsValue(Remove(s, ".")), -decimals)

\* re.match(r"([\d\.]+)\s*([KMB]?)", s, re.IGNORECASE).groups(), or <<>> when
\* there is no match: the match is anchored at the start of s and greedy
ReMatch(s) ==
    LET n == Span(s, Digits \cup {"."})
        rest == Drop(s, n)
        afterWs == Drop(rest, Span(rest, Whitespace))
        suffix == IF afterWs # <<>> /\ Upper(Head(afterWs)) \in {"K", "M", "B"}
                  THEN <<Head(afterWs)>> ELSE <<>>
    IN  IF n = 0 THEN <<>> ELSE <<Take(s, n), suffix>>

-----------------------------------------------------------------------------
(* clean_funds                                                             *)

clean_funds(v) ==
    IF v.t = "str" THEN
        LET s == Strip(Remove(Remove(v.s, ","), "$"))
            match == ReMatch(s)
        IN  IF match # <<>> THEN
                LET num == Float(match[1])
                    suffix == IF match[2] = <<>> THEN "" ELSE Upper(match[2][1])
                IN  IF IsRaise(num) THEN num
                    ELSE IF suffix = "K" THEN Scale(num, 3)
                    ELSE IF suffix = "M" THEN Scale(num, 6)
                    ELSE IF suffix = "B" THEN Scale(num, 9)
                    ELSE num
            ELSE NaN
    ELSE IF v.t \in {"num", "nan", "inf"} THEN v
    ELSE NaN

-----------------------------------------------------------------------------
(* normalize_month                                                         *)

month_map ==
    << <<"J","a","n","u","a","r","y">>, <<"F","e","b","r","u","a","r","y">>,
       <<"M","a","r","c","h">>, <<"A","p","r","i","l">>, <<"M","a","y">>,
       <<"J","u","n","e">>, <<"J","u","l","y">>, <<"A","u","g","u","s","t">>,
       <<"S","e","p","t","e","m","b","e","r">>, <<"O","c","t","o","b","e","r">>,
       <<"N","o","v","e","m","b","e","r">>, <<"D","e","c","e","m","b","e","r">> >>

\* month_map.get(s, 0)
MonthMapGet(s) ==
    IF \E i \in 1..Len(month_map) : month_map[i] = s
    THEN CHOOSE i \in 1..Len(month_map) : month_map[i] = s
    ELSE 0

\* s.isdigit(): not empty, and every character has the Unicode digit property
IsDigit(s) == s # <<>> /\ \A i \in 1..Len(s) : s[i] \in Digits \cup SuperDigits

\* int(s) for a text s that passed isdigit(): int() reads decimal digits only
IntOfText(s) ==
    IF \A i \in 1..Len(s) : s[i] \in Digits
    THEN IntNum(DigitsValue(s))
    ELSE Raised("ValueError")

\* int(m) inside try / except Exception: return 0
IntOrZero(m) == IF m.t = "inf" THEN IntNum(0) ELSE IntNum(Trunc(m))

normalize_month(m) ==
    IF m.t = "nan" THEN IntNum(0)
    ELSE IF m.t \in {"num", "inf"} THEN IntOrZero(m)
    ELSE LET s == Strip(m.s)
         IN  IF IsDigit(s) THEN IntOfText(s)
             ELSE IntNum(MonthMapGet(s))

-----------------------------------------------------------------------------
(* The normalizers on their own: one call on one argument.                 *)

\* every text of at most n characters over the alphabet
Texts(alphabet, n) == UNION {[1..k -> alphabet] : k \in 0..n}

Idle == <<>>

FundsAlphabet == {"0", "1", "2", ".", ",", "$", " ", "K", "m", "B", "a"}

\* "1,200", "12.3M" and "$1,200" of the docstring, on top of the short texts
FundsTexts ==
    Texts(FundsAlphabet, MaxLen)
        \cup { <<"1", ",", "2", "0", "0">>, <<"1", "2", ".", "3", "M">>,
               <<"$", "1", ",", "2", "0", "0">>, <<"1", ".", "2", ".", "3">> }

FundsValues ==
    {Str(s) : s \in FundsTexts}
        \cup {IntNum(42), IntNum(0), IntNum(-5), Num(15, -1), NaN, Inf, Other}

InitFunds ==
    /\ pc = "clean_funds"
    /\ value \in FundsValues
    /\ ret = Idle
    /\ raw = Idle /\ df = Idle /\ sel = Idle /\ view = Idle

CallCleanFunds ==
    /\ pc = "clean_funds"
    /\ ret' = clean_funds(value)
    /\ pc' = "returned"
    /\ UNCHANGED <<value, raw, df, sel, view>>

NextFunds == CallCleanFunds

SpecFunds == InitFunds /\ [][NextFunds]_vars

MonthAlphabet == {"0", "1", "3", "^2", " ", "a"}

MonthTexts ==
    Texts(MonthAlphabet, MaxLen)
        \cup {month_map[i] : i \in 1..Len(month_map)}
        \cup { <<" ">> \o month_map[3] \o <<" ">>, <<"m","a","r","c","h">>,
               <<"M","A","R","C","H">>, <<"S","m","a","r","c","h">>,
               <<"M","a","r">>, <<"-", "1">>, <<"3", ".", "0">> }

MonthValues ==
    {Str(s) : s \in MonthTexts}
        \cup {IntNum(3), IntNum(13), IntNum(0), IntNum(-1), Num(37, -1),
              Num(-37, -1), NaN, Inf}

InitMonth ==
    /\ pc = "normalize_month"
    /\ value \in MonthValues
    /\ ret = Idle
    /\ raw = Idle /\ df = Idle /\ sel = Idle /\ view = Idle

CallNormalizeMonth ==
    /\ pc = "normalize_month"
    /\ ret' = normalize_month(value)
    /\ pc' = "returned"
    /\ UNCHANGED <<value, raw, df, sel, view>>

NextMonth == CallNormalizeMonth

SpecMonth == InitMonth /\ [][NextMonth]_vars

-----------------------------------------------------------------------------
(* Clean & normalize dataset: the script from the loaded table to the      *)
(* normalized `df`, one action per statement.                              *)

Unset == Val("unset", 0, 0, <<>>)

\* pd.to_numeric(x, errors='coerce') of one cell: a number stays, a text that
\* reads as a decimal literal (with an optional sign) becomes that number,
\* anything else becomes NaN
ToNumeric(v) ==
    IF v.t = "num" THEN v
    ELSE IF v.t = "str" THEN
        LET neg == v.s # <<>> /\ Head(v.s) = "-"
            body == IF neg THEN Tail(v.s) ELSE v.s
            ok == body # <<>> /\ \A i \in 1..Len(body) : body[i] \in Digits \cup {"."}
            x == IF ok THEN Float(body) ELSE NaN
        IN  IF IsNum(x) THEN Num(IF neg THEN -x.m ELSE x.m, x.e) ELSE NaN
    ELSE NaN

\* Series.notna() of one cell
NotNa(v) == v.t # "nan"

\* .astype(int) of one number
AsInt(x) == IntNum(Trunc(x))

\* YearColumn with the bug the comment of line 72 warns of: a year that does
\* not parse is turned into 0 and its row kept
YearColumnZeroed(rows) ==
    [i \in 1..Len(rows) |->
        [rows[i] EXCEPT !.year = IF NotNa(ToNumeric(@)) THEN AsInt(ToNumeric(@))
                                 ELSE IntNum(0)]]

\* df['year'] = pd.to_numeric(...); df = df[df['year'].notna()];
\* df['year'] = df['year'].astype(int)
YearColumn(rows) ==
    LET kept == SelectSeq(rows, LAMBDA r : NotNa(ToNumeric(r.year)))
    IN  [i \in 1..Len(kept) |-> [kept[i] EXCEPT !.year = AsInt(ToNumeric(@))]]

\* TotalLaidOff without .fillna(0): a missing value stays missing
TotalLaidOffNoFill(v) ==
    LET x == ToNumeric(v) IN IF NotNa(x) THEN AsInt(x) ELSE NaN

\* pd.to_numeric(..., errors='coerce').fillna(0).astype(int) of one cell
TotalLaidOff(v) ==
    LET x == ToNumeric(v) IN IF NotNa(x) THEN AsInt(x) ELSE IntNum(0)

\* the first exception among the results of a Series.apply, or none
FirstRaise(results) ==
    LET bad == SelectSeq(results, IsRaise)
    IN  IF bad = <<>> THEN Idle ELSE Head(bad)

YearCells ==
    {NaN, IntNum(2020), Num(20205, -1), Str(<<"2", "0", "2", "1">>),
     Str(<<"a", "b", "c">>)}

MonthCells ==
    {NaN, IntNum(13), IntNum(-1), Str(month_map[3]), Str(<<"1", "3">>),
     Str(<<"^2">>)}

TotalCells == {NaN, IntNum(100), IntNum(-5), Str(<<"a", "b", "c">>)}

FundsCells == {NaN, Str(<<"5", "K">>), Str(<<"1", ".", "2", ".", "3">>), IntNum(-5)}

RawRows ==
    [year : YearCells, month : MonthCells, total_laid_off : TotalCells,
     funds_raised : FundsCells]

SeqsUpTo(S, n) == UNION {[1..k -> S] : k \in 0..n}

\* pd.read_csv: the rows in file order under the default index 0, 1, ...
ReadCsv(table) ==
    [i \in 1..Len(table.rows) |->
        [idx |-> i - 1,
         year |-> table.rows[i].year,
         month |-> table.rows[i].month,
         total_laid_off |-> table.rows[i].total_laid_off,
         funds_raised |-> table.rows[i].funds_raised,
         funds_raised_clean |-> Unset]]

InitSanitize ==
    /\ raw \in [has_funds_raised : BOOLEAN, rows : SeqsUpTo(RawRows, MaxRawRows)]
    /\ df = ReadCsv(raw)
    /\ pc = "year"
    /\ ret = Idle
    /\ value = Idle /\ sel = Idle /\ view = Idle

\* lines 73-75
YearHandling ==
    /\ pc = "year"
    /\ df' = YearColumn(df)
    /\ pc' = "month"
    /\ UNCHANGED <<value, ret, raw, sel, view>>

\* line 95
MonthMapping ==
    /\ pc = "month"
    /\ LET months == [i \in 1..Len(df) |-> normalize_month(df[i].month)]
           exc == FirstRaise(months)
       IN  IF exc # Idle
           THEN /\ pc' = "raised_month"
                /\ ret' = exc
                /\ df' = df
           ELSE /\ pc' = "total_laid_off"
                /\ ret' = ret
                /\ df' = [i \in 1..Len(df) |-> [df[i] EXCEPT !.month = months[i]]]
    /\ UNCHANGED <<value, raw, sel, view>>

\* line 98
NumericTotal ==
    /\ pc = "total_laid_off"
    /\ df' = [i \in 1..Len(df) |->
                [df[i] EXCEPT !.total_laid_off = TotalLaidOff(@)]]
    /\ pc' = "funds_raised_clean"
    /\ UNCHANGED <<value, ret, raw, sel, view>>

\* line 99: df.get('funds_raised', np.nan) is the float nan when the table has
\* no such column, and a float has no .apply
FundsRaisedClean ==
    /\ pc = "funds_raised_clean"
    /\ IF ~raw.has_funds_raised
       THEN /\ pc' = "raised_funds"
            /\ ret' = Raised("AttributeError")
            /\ df' = df
       ELSE LET funds == [i \in 1..Len(df) |-> clean_funds(df[i].funds_raised)]
                exc == FirstRaise(funds)
            IN  IF exc # Idle
                THEN /\ pc' = "raised_funds"
                     /\ ret' = exc
                     /\ df' = df
                ELSE /\ pc' = "clean"
                     /\ ret' = ret
                     /\ df' = [i \in 1..Len(df) |->
                                 [df[i] EXCEPT !.funds_raised_clean = funds[i]]]
    /\ UNCHANGED <<value, raw, sel, view>>

NextSanitize == YearHandling \/ MonthMapping \/ NumericTotal \/ FundsRaisedClean

SpecSanitize == InitSanitize /\ [][NextSanitize]_vars

-----------------------------------------------------------------------------
(* The dashboard: one pass of the script over the normalized dataset, run  *)
(* once on load and again on every change of a sidebar widget.  A row of   *)
(* the normalized dataset carries the columns the pass reads; year and     *)
(* total_laid_off, integers since .astype(int), are plain integers here.   *)

\* sorted() of the names of the model: their lexicographic order
NameOrder == <<"India", "Retail", "Tech", "US">>
Rank(name) == CHOOSE i \in 1..Len(NameOrder) : NameOrder[i] = name

\* sorted(set) of a set of integers
RECURSIVE SortedInts(_)
SortedInts(set) ==
    IF set = {} THEN <<>>
    ELSE LET first == CHOOSE x \in set : \A y \in set : x <= y
         IN  <<first>> \o SortedInts(set \ {first})

\* sorted(set) of a set of names
SortedNames(set) ==
    LET ranks == SortedInts({Rank(name) : name \in set})
    IN  [i \in 1..Len(ranks) |-> NameOrder[ranks[i]]]

Column(rows, col) == {rows[i][col] : i \in 1..Len(rows)}

\* the distinct values of a column, ascending: the order groupby puts them in
SortedKeys(rows, col) ==
    IF col = "year" THEN SortedInts(Column(rows, col))
    ELSE SortedNames(Column(rows, col))

RECURSIVE SumTotals(_)
SumTotals(rows) ==
    IF rows = <<>> THEN 0 ELSE Head(rows).total_laid_off + SumTotals(Tail(rows))

\* rows.groupby(col)['total_laid_off'].sum(): one entry per key, keys ascending
GroupbySum(rows, col) ==
    LET keys == SortedKeys(rows, col)
    IN  [i \in 1..Len(keys) |->
            [key |-> keys[i],
             total_laid_off |->
                 SumTotals(SelectSeq(rows, LAMBDA r : r[col] = keys[i]))]]

\* rows.groupby(['year', 'industry'], as_index=False)['total_laid_off'].sum()
GroupbySum2(rows) ==
    LET byYear == SortedKeys(rows, "year")
        RECURSIVE Frames(_)
        Frames(years) ==
            IF years = <<>> THEN <<>>
            ELSE LET part == SelectSeq(rows, LAMBDA r : r.year = Head(years))
                     sums == GroupbySum(part, "industry")
                 IN  [i \in 1..Len(sums) |->
                         [year |-> Head(years), industry |-> sums[i].key,
                          total_laid_off |-> sums[i].total_laid_off]]
                     \o Frames(Tail(years))
    IN  Frames(byYear)

Table(columns, rows) == [columns |-> columns, rows |-> rows]

\* lines 45-49
safe_groupby_sum(rows) ==
    IF rows = <<>>
    THEN Table(<<"year", "industry", "total_laid_off">>, <<>>)
    ELSE Table(<<"year", "industry", "total_laid_off">>, GroupbySum2(rows))

\* IdxMax that keeps the last entry holding the maximum
IdxMaxLast(sums) ==
    LET i == CHOOSE k \in 1..Len(sums) :
                 /\ \A j \in 1..Len(sums) : sums[j].total_laid_off <= sums[k].total_laid_off
                 /\ \A j \in (k + 1)..Len(sums) : sums[j].total_laid_off < sums[k].total_laid_off
    IN  sums[i].key

\* Series.idxmax(): the key of the first entry that holds the maximum
IdxMax(sums) ==
    LET i == CHOOSE k \in 1..Len(sums) :
                 /\ \A j \in 1..Len(sums) : sums[j].total_laid_off <= sums[k].total_laid_off
                 /\ \A j \in 1..(k - 1) : sums[j].total_laid_off < sums[k].total_laid_off
    IN  sums[i].key

\* Series.between(lo, hi): inclusive on both sides
Between(y, lo, hi) == lo <= y /\ y <= hi

\* Ordered without the swap of lines 130-131
OrderedNoSwap(s) == s

\* lines 130-137: the selection with the years in order, and the rows it keeps
Ordered(s) ==
    IF s.from_year > s.to_year
    THEN [s EXCEPT !.from_year = s.to_year, !.to_year = s.from_year]
    ELSE s

ApplyFilters(rows, s) ==
    LET o == Ordered(s)
        inYears == SelectSeq(rows, LAMBDA r : Between(r.year, o.from_year, o.to_year))
        inIndustry == IF o.industry # "All"
                      THEN SelectSeq(inYears, LAMBDA r : r.industry = o.industry)
                      ELSE inYears
    IN  IF o.country # "All"
        THEN SelectSeq(inIndustry, LAMBDA r : r.country = o.country)
        ELSE inIndustry

-----------------------------------------------------------------------------
(* Floats of the summary: a fraction n/d in lowest terms, an infinity      *)
(* (n = 1 or -1) or NaN.                                                   *)

RECURSIVE Gcd(_, _)
Gcd(a, b) == IF b = 0 THEN a ELSE Gcd(b, a % b)
Abs(a) == IF a < 0 THEN -a ELSE a

Rat(n, d) ==
    LET g == Gcd(Abs(n), Abs(d))
        sign == IF d < 0 THEN -1 ELSE 1
    IN  [t |-> "rat", n |-> sign * (n \div g), d |-> sign * (d \div g)]
FInf(sign) == [t |-> "inf", n |-> sign, d |-> 1]
FNaN == [t |-> "nan", n |-> 0, d |-> 1]

\* a / b of two integers as floats divide: x/0 is an infinity, 0/0 is NaN
FDiv(a, b) ==
    IF b # 0 THEN Rat(a, b)
    ELSE IF a > 0 THEN FInf(1) ELSE IF a < 0 THEN FInf(-1) ELSE FNaN

\* a + b of two floats
FAdd(a, b) ==
    IF a.t = "nan" \/ b.t = "nan" THEN FNaN
    ELSE IF a.t = "inf" /\ b.t = "inf" THEN (IF a.n = b.n THEN a ELSE FNaN)
    ELSE IF a.t = "inf" THEN a
    ELSE IF b.t = "inf" THEN b
    ELSE Rat(a.n * b.d + b.n * a.d, a.d * b.d)

\* a * k and a / k for an integer k > 0
FScale(a, k) == IF a.t = "rat" THEN Rat(a.n * k, a.d) ELSE a
FOver(a, k) == IF a.t = "rat" THEN Rat(a.n, a.d * k) ELSE a

RECURSIVE FSum(_)
FSum(xs) == IF xs = <<>> THEN Rat(0, 1) ELSE FAdd(Head(xs), FSum(Tail(xs)))

\* Series.pct_change(): entry i is x[i] / x[i-1] - 1, which is
\* (x[i] - x[i-1]) / x[i-1] also where x[i-1] = 0; the first entry is NaN
PctChange(sums) ==
    [i \in 1..Len(sums) |->
        IF i = 1 THEN FNaN
        ELSE FDiv(sums[i].total_laid_off - sums[i - 1].total_laid_off,
                  sums[i - 1].total_laid_off)]

\* Series.dropna(): NaN goes, an infinity stays
DropNa(xs) == SelectSeq(xs, LAMBDA x : x.t # "nan")

\* Series.mean()
Mean(xs) == FOver(FSum(xs), Len(xs))

\* lines 157-159
AvgYoyChange(rows) ==
    LET yearly_totals == GroupbySum(rows, "year")
        dropped == DropNa(PctChange(yearly_totals))
        yoy_changes == [i \in 1..Len(dropped) |-> FScale(dropped[i], 100)]
    IN  IF yoy_changes # <<>> THEN Mean(yoy_changes) ELSE Rat(0, 1)

-----------------------------------------------------------------------------
(* Funding vs Layoffs                                                      *)

\* line 299: funds_raised_clean not null and > 0
ValidFunds(rows) ==
    SelectSeq(rows, LAMBDA r : IsNum(r.funds_raised_clean)
                                  /\ IsPositive(r.funds_raised_clean))

\* the funds of the rows as integers on one common scale
FundsScaled(rows) ==
    LET RECURSIVE MinExp(_)
        MinExp(rs) ==
            IF rs = <<>> THEN 0
            ELSE LET rest == MinExp(Tail(rs))
                     e == Head(rs).funds_raised_clean.e
                 IN  IF e < rest THEN e ELSE rest
        k == MinExp(rows)
    IN  [i \in 1..Len(rows) |->
            rows[i].funds_raised_clean.m * Pow10(rows[i].funds_raised_clean.e - k)]

RECURSIVE Dot(_, _)
Dot(xs, ys) ==
    IF xs = <<>> THEN 0 ELSE Head(xs) * Head(ys) + Dot(Tail(xs), Tail(ys))

\* DataFrame.corr().iloc[0, 1], Pearson's r of funds and layoffs, as far as
\* the script reads it: NaN (under two rows, or a column without variance),
\* else its sign and 100 * r^2 against the thresholds 0.3 and 0.6
Corr(rows) ==
    LET n == Len(rows)
        x == FundsScaled(rows)
        y == [i \in 1..n |-> rows[i].total_laid_off]
        ones == [i \in 1..n |-> 1]
        sxy == n * Dot(x, y) - Dot(x, ones) * Dot(y, ones)
        sxx == n * Dot(x, x) - Dot(x, ones) * Dot(x, ones)
        syy == n * Dot(y, y) - Dot(y, ones) * Dot(y, ones)
    IN  IF n < 2 \/ sxx = 0 \/ syy = 0
        THEN [nan |-> TRUE, sign |-> 0, strength |-> ""]
        ELSE [nan |-> FALSE,
              sign |-> IF sxy > 0 THEN 1 ELSE IF sxy < 0 THEN -1 ELSE 0,
              strength |-> IF 100 * sxy * sxy < 9 * sxx * syy THEN "Weak"
                           ELSE IF 100 * sxy * sxy < 36 * sxx * syy THEN "Moderate"
                           ELSE "Strong"]

\* lines 326-332
CorrText(corr) ==
    IF corr.nan THEN "Insufficient numeric data to calculate correlation."
    ELSE corr.strength

\* lines 334-339: every comparison with NaN is false
Relation(corr) ==
    IF ~corr.nan /\ corr.sign > 0 THEN "higher funding, higher layoffs"
    ELSE IF ~corr.nan /\ corr.sign < 0 THEN "higher funding, fewer layoffs"
    ELSE "No clear relationship"

-----------------------------------------------------------------------------
(* One pass of the script, lines 130-340.                                  *)

NA == Str(<<"N/A">>)

\* lines 157-171 and 186: the summary of a filtered set that is not empty
SummaryOf(filtered) ==
    LET yearly_totals == GroupbySum(filtered, "year")
    IN  [total_layoffs |-> SumTotals(filtered),
         avg_yoy_change |-> AvgYoyChange(filtered),
         peak_year |-> IF yearly_totals # <<>>
                       THEN IntNum(IdxMax(yearly_totals)) ELSE NA,
         top_industry |-> IdxMax(GroupbySum(filtered, "industry")),
         top_country |-> IdxMax(GroupbySum(filtered, "country")),
         year_min |-> SortedKeys(filtered, "year")[1],
         year_max |-> LET ys == SortedKeys(filtered, "year") IN ys[Len(ys)]]

\* NoData with a peak year of 0 in place of the sentinel
NoDataZero(o) ==
    [total_layoffs |-> 0,
     avg_yoy_change |-> Rat(0, 1),
     peak_year |-> IntNum(0),
     top_industry |-> "N/A",
     top_country |-> "N/A",
     year_min |-> o.from_year,
     year_max |-> o.to_year]

\* lines 173-178 and 186: the summary of an empty filtered set
NoData(o) ==
    [total_layoffs |-> 0,
     avg_yoy_change |-> Rat(0, 1),
     peak_year |-> NA,
     top_industry |-> "N/A",
     top_country |-> "N/A",
     year_min |-> o.from_year,
     year_max |-> o.to_year]

\* line 156: if not filtered.empty
Summary(filtered, o) == IF filtered # <<>> THEN SummaryOf(filtered) ELSE NoData(o)

\* line 225: filtered.groupby('year')['total_laid_off'].sum().reset_index()
Yearly(filtered) ==
    LET sums == GroupbySum(filtered, "year")
    IN  Table(<<"year", "total_laid_off">>,
              [i \in 1..Len(sums) |->
                  [year |-> sums[i].key, total_laid_off |-> sums[i].total_laid_off]])

\* lines 299-340
Funding(filtered) ==
    LET valid == ValidFunds(filtered)
    IN  IF Len(valid) = 0
        THEN [warning |-> TRUE, corr_text |-> "", relation |-> ""]
        ELSE [warning |-> FALSE,
              corr_text |-> CorrText(Corr(valid)),
              relation |-> Relation(Corr(valid))]

Render(rows, s) ==
    LET filtered == ApplyFilters(rows, s)
    IN  [filtered |-> filtered,
         summary |-> Summary(filtered, Ordered(s)),
         animated_data |-> safe_groupby_sum(filtered),
         yearly |-> Yearly(filtered),
         funding |-> Funding(filtered)]

\* lines 106-120: the options of the four select boxes
YearsSorted(rows) == SortedKeys(rows, "year")
Industries(rows) == <<"All">> \o SortedKeys(rows, "industry")
Countries(rows) == <<"All">> \o SortedKeys(rows, "country")
Options(list) == {list[i] : i \in 1..Len(list)}

\* the widgets as a first pass leaves them: index=0, index=len-1, and the
\* first option of the other two
Defaults(rows) ==
    [from_year |-> YearsSorted(rows)[1],
     to_year |-> YearsSorted(rows)[Len(YearsSorted(rows))],
     industry |-> "All",
     country |-> "All"]

Years == {2020, 2021, 2022}

\* the datasets of the model: rows that differ in place, in totals, in funds
RowsByPlace ==
    [year : Years, industry : {"Retail", "Tech"}, country : {"India", "US"},
     total_laid_off : {100}, funds_raised_clean : {NaN}]
RowsByTotal ==
    [year : Years, industry : {"Tech"}, country : {"US"},
     total_laid_off : {0, 100, 300}, funds_raised_clean : {NaN}]
RowsByFunds ==
    [year : {2020}, industry : {"Tech"}, country : {"US"},
     total_laid_off : {10, 30},
     funds_raised_clean : {NaN, IntNum(0), IntNum(1), IntNum(2), Num(35, -1)}]

Datasets ==
    SeqsUpTo(RowsByPlace, MaxRows) \cup SeqsUpTo(RowsByTotal, MaxRows)
        \cup SeqsUpTo(RowsByFunds, MaxRows)

Init ==
    /\ df \in Datasets
    /\ pc = "loaded"
    /\ sel = Idle
    /\ view = Idle
    /\ value = Idle /\ ret = Idle /\ raw = Idle

\* lines 106-109: no year in the dataset, the script stops
NoYears ==
    /\ pc = "loaded"
    /\ YearsSorted(df) = <<>>
    /\ pc' = "stopped"
    /\ UNCHANGED <<value, ret, raw, df, sel, view>>

\* the first pass, on the widgets' defaults
FirstRun ==
    /\ pc = "loaded"
    /\ YearsSorted(df) # <<>>
    /\ sel' = Defaults(df)
    /\ view' = Render(df, sel')
    /\ pc' = "shown"
    /\ UNCHANGED <<value, ret, raw, df>>

\* a change of one widget reruns the script on the new selection
Rerun(s) ==
    /\ pc = "shown"
    /\ s # sel
    /\ sel' = s
    /\ view' = Render(df, s)
    /\ UNCHANGED <<pc, value, ret, raw, df>>

SelectFromYear == \E y \in Options(YearsSorted(df)) : Rerun([sel EXCEPT !.from_year = y])
SelectToYear == \E y \in Options(YearsSorted(df)) : Rerun([sel EXCEPT !.to_year = y])
SelectIndustry == \E i \in Options(Industries(df)) : Rerun([sel EXCEPT !.industry = i])
SelectCountry == \E c \in Options(Countries(df)) : Rerun([sel EXCEPT !.country = c])

Next ==
    \/ NoYears
    \/ FirstRun
    \/ SelectFromYear
    \/ SelectToYear
    \/ SelectIndustry
    \/ SelectCountry

Spec == Init /\ [][Next]_vars

-----------------------------------------------------------------------------
(* Properties of the normalizers.                                          *)

\* a < b and a <= b for numbers m * 10^e
LessNum(a, b) ==
    LET k == IF a.e < b.e THEN a.e ELSE b.e
    IN  a.m * Pow10(a.e - k) < b.m * Pow10(b.e - k)
LeqNum(a, b) == a = b \/ LessNum(a, b)

\* the length of the longest prefix of s that is a decimal numeral: digits
\* with an optional decimal point, and at least one digit
LeadingNumeral(s) ==
    LET whole == Span(s, Digits)
        rest == Drop(s, whole)
        frac == IF rest # <<>> /\ Head(rest) = "." THEN Span(Tail(rest), Digits) ELSE 0
    IN  IF rest # <<>> /\ Head(rest) = "." /\ whole + frac > 0
        THEN whole + 1 + frac ELSE whole

\* what the claim says clean_funds returns
ClaimedFunds(v) ==
    IF v.t = "str" THEN
        LET s == Strip(Remove(Remove(v.s, ","), "$"))
            n == LeadingNumeral(s)
            after == LStrip(Drop(s, n))
            c == IF after = <<>> THEN "" ELSE Head(after)
        IN  IF n = 0 THEN NaN
            ELSE IF c \in {"K", "k"} THEN Scale(Float(Take(s, n)), 3)
            ELSE IF c \in {"M", "m"} THEN Scale(Float(Take(s, n)), 6)
            ELSE IF c \in {"B", "b"} THEN Scale(Float(Take(s, n)), 9)
            ELSE Float(Take(s, n))
    ELSE v

\* C3: clean_funds returns, for a text trimmed and rid of ',' and '$', its
\* leading decimal number times 1e3, 1e6 or 1e9 for a suffix K, M or B (either
\* case) and times 1 without a suffix, absent when the text does not start
\* with a number, and a numeric input unchanged.
C3_CleanFundsValue ==
    (pc = "returned" /\ value.t # "other") => ret = ClaimedFunds(value)

\* the examples of C3 hold, and C3 holds of every call that returns: only a
\* raise (C4) separates clean_funds from what C3 says
C3_HoldsWhenReturning ==
    (pc = "returned" /\ value.t # "other" /\ ~IsRaise(ret))
        => ret = ClaimedFunds(value)
C3_Examples ==
    /\ clean_funds(Str(<<"1", ",", "2", "0", "0">>)) = IntNum(1200)
    /\ clean_funds(Str(<<"5", "K">>)) = IntNum(5000)
    /\ clean_funds(Str(<<"1", "2", ".", "3", "M">>)) = IntNum(12300000)
    /\ clean_funds(Str(<<"2", "B">>)) = Num(2, 9)
    /\ clean_funds(Str(<<"a", "b", "c">>)) = NaN
    /\ clean_funds(IntNum(42)) = IntNum(42)

\* what the claim says normalize_month returns
ClaimedMonth(v) ==
    IF v.t = "nan" THEN IntNum(0)
    ELSE IF v.t = "num" THEN IntNum(Trunc(v))
    ELSE IF v.t = "inf" THEN IntNum(0)
    ELSE IF v.s # <<>> /\ \A i \in 1..Len(v.s) : v.s[i] \in Digits
         THEN IntNum(DigitsValue(v.s))
    ELSE IF \E i \in 1..Len(month_map) : month_map[i] = v.s
         THEN IntNum(CHOOSE i \in 1..Len(month_map) : month_map[i] = v.s)
    ELSE IntNum(0)

\* C9: normalize_month returns 0 for a missing value, the truncated integer
\* for a number, the parsed integer for a text of digits only, the ordinal for
\* a text that is exactly a full English month name, 0 for any other text;
\* it never raises.
C9_NormalizeMonthValue ==
    pc = "returned" => (~IsRaise(ret) /\ ret = ClaimedMonth(value))

\* C9 holds of every text that needs no trimming and holds no digit outside
\* 0-9: the trimming and the raise are all that separates the two
C9_HoldsOnTrimmedAscii ==
    (/\ pc = "returned"
     /\ value.t = "str" => (/\ Strip(value.s) = value.s
                            /\ \A i \in 1..Len(value.s) : value.s[i] \notin SuperDigits))
        => ret = ClaimedMonth(value)

-----------------------------------------------------------------------------
(* Properties of the clean-up.                                             *)

\* the row of the source a row of df comes from
Source(r) == raw.rows[r.idx + 1]

Retained(i) == \E j \in 1..Len(df) : df[j].idx = i - 1

\* C4: deriving funds_raised_clean never raises, whatever the funds_raised
\* values are and also when the source has no funds_raised column.
C4_FundsNeverRaise == pc # "raised_funds"

IsTruncationOf(n, x) ==
    /\ IsIntegral(n)
    /\ IF IsNegative(x)
       THEN LessNum(Num(n.m * Pow10(n.e) - 1, 0), x) /\ LeqNum(x, n)
       ELSE LeqNum(n, x) /\ LessNum(x, Num(n.m * Pow10(n.e) + 1, 0))

C8_RecordInvariants ==
    pc = "clean" =>
        \A j \in 1..Len(df) :
            /\ IsIntegral(df[j].month) /\ Trunc(df[j].month) \in 0..12
            /\ IsIntegral(df[j].total_laid_off) /\ ~IsNegative(df[j].total_laid_off)
            /\ \/ df[j].funds_raised_clean.t = "nan"
               \/ IsNum(df[j].funds_raised_clean) /\ ~IsNegative(df[j].funds_raised_clean)

\* the raw month is a number, or a text of digits once trimmed
NumericMonth(v) == v.t = "num" \/ (v.t = "str" /\ IsDigit(Strip(v.s)))

\* C8 as amended: month is an integer, in [0,12] unless the raw month is a
\* number or a text of digits, which passes through; total_laid_off is an
\* integer, >= 0 unless the raw value is a negative number; funds_raised_clean
\* is a number or absent, never a text, and >= 0 unless the raw value is a
\* negative number.
C8_RecordTypes ==
    pc = "clean" =>
        \A j \in 1..Len(df) :
            /\ IsIntegral(df[j].month)
            /\ Trunc(df[j].month) \in 0..12 \/ NumericMonth(Source(df[j]).month)
            /\ IsIntegral(df[j].total_laid_off)
            /\ \/ ~IsNegative(df[j].total_laid_off)
               \/ IsNegative(ToNumeric(Source(df[j]).total_laid_off))
            /\ df[j].funds_raised_clean.t \in {"num", "nan"}
            /\ \/ df[j].funds_raised_clean.t = "nan"
               \/ ~IsNegative(df[j].funds_raised_clean)
               \/ IsNum(Source(df[j]).funds_raised) /\ IsNegative(Source(df[j]).funds_raised)

\* a cleaned record whose month passed through as 13 and whose total is negative
C8_Witness ==
    /\ pc = "clean"
    /\ \E j \in 1..Len(df) :
          /\ df[j].month = IntNum(13)
          /\ IsNegative(df[j].total_laid_off)
          /\ IsNum(df[j].funds_raised_clean)

-----------------------------------------------------------------------------
(* Properties of the dashboard.                                            *)

Min(a, b) == IF a < b THEN a ELSE b
Max(a, b) == IF a > b THEN a ELSE b

\* the records of the dataset a selection asks for
Selected(rows, s) ==
    SelectSeq(rows, LAMBDA r :
        /\ Min(s.from_year, s.to_year) <= r.year
        /\ r.year <= Max(s.from_year, s.to_year)
        /\ s.industry = "All" \/ r.industry = s.industry
        /\ s.country = "All" \/ r.country = s.country)

\* C1: on every pass the filtered set is exactly the records of the unchanged
\* normalized dataset whose year lies between the smaller and the larger of
\* from_year and to_year, whose industry is the industry filter unless that is
\* "All", and whose country is the country filter unless that is "All".
C1_FilteredExactly ==
    [][pc' = "shown" => (view'.filtered = Selected(df, sel') /\ df' = df)]_vars

\* a pass on a reversed year range and an industry filter that keeps some
\* records and leaves some out
C1_Witness ==
    /\ pc = "shown"
    /\ sel.from_year > sel.to_year
    /\ sel.industry # "All"
    /\ view.filtered # <<>>
    /\ view.filtered # df

\* C2: on an empty filtered set the summary is total_layoffs = 0, peak_year,
\* top_industry and top_country "N/A", avg_yoy_change 0.0, and the grouped
\* tables are empty with their columns.
C2_EmptySummary ==
    (pc = "shown" /\ view.filtered = <<>>) =>
        /\ view.summary.total_layoffs = 0
        /\ view.summary.peak_year = NA
        /\ view.summary.top_industry = "N/A"
        /\ view.summary.top_country = "N/A"
        /\ view.summary.avg_yoy_change = Rat(0, 1)
        /\ view.animated_data = Table(<<"year", "industry", "total_laid_off">>, <<>>)
        /\ view.yearly = Table(<<"year", "total_laid_off">>, <<>>)

\* a pass whose filters no record of a non-empty dataset passes
C2_Witness == pc = "shown" /\ view.filtered = <<>> /\ df # <<>>

\* C6: with fewer than 2 rows of positive funds the correlation is reported as
\* indeterminate, and the "no clear relationship" narrative is not produced.
C6_IndeterminateNotZero ==
    (pc = "shown" /\ Len(ValidFunds(view.filtered)) < 2) =>
        /\ \/ view.funding.warning
           \/ view.funding.corr_text = "Insufficient numeric data to calculate correlation."
        /\ view.funding.relation # "No clear relationship"

\* the summed total_laid_off of the rows with rows[col] = key
TotalOf(rows, col, key) == SumTotals(SelectSeq(rows, LAMBDA r : r[col] = key))

\* the percentage changes between consecutive yearly totals that are defined:
\* those whose preceding total is not 0
DefinedChanges(rows) ==
    LET years == SortedInts(Column(rows, "year"))
        at(i) == TotalOf(rows, "year", years[i])
        pairs == SelectSeq([i \in 1..(Len(years) - 1) |-> i], LAMBDA i : at(i) # 0)
    IN  [k \in 1..Len(pairs) |->
            Rat((at(pairs[k] + 1) - at(pairs[k])) * 100, at(pairs[k]))]

\* C7: for a non-empty filtered set avg_yoy_change is the mean of the defined
\* percentage changes between consecutive yearly totals, 0.0 when there is
\* none, and a preceding total of 0 never makes it infinite or undefined.
C7_AvgYoyChange ==
    (pc = "shown" /\ view.filtered # <<>>) =>
        /\ view.summary.avg_yoy_change.t = "rat"
        /\ view.summary.avg_yoy_change =
              (IF DefinedChanges(view.filtered) = <<>> THEN Rat(0, 1)
               ELSE Mean(DefinedChanges(view.filtered)))

\* C7 holds of every filtered set no year of which sums to 0
C7_HoldsWithoutZeroTotal ==
    (/\ pc = "shown" /\ view.filtered # <<>>
     /\ \A y \in Column(view.filtered, "year") : TotalOf(view.filtered, "year", y) # 0)
        => view.summary.avg_yoy_change =
              (IF DefinedChanges(view.filtered) = <<>> THEN Rat(0, 1)
               ELSE Mean(DefinedChanges(view.filtered)))

\* the place of a key in grouping order: groupby sorts its keys ascending
KeyRank(col, key) == IF col = "year" THEN key ELSE Rank(key)

\* key holds the maximum of the summed totals of its column, and is the first
\* in grouping order of the keys that do
FirstMaximal(rows, col, key) ==
    /\ key \in Column(rows, col)
    /\ \A k \in Column(rows, col) :
          /\ TotalOf(rows, col, k) <= TotalOf(rows, col, key)
          /\ TotalOf(rows, col, k) = TotalOf(rows, col, key)
                => KeyRank(col, key) <= KeyRank(col, k)

\* C10: for a non-empty filtered set peak_year, top_industry and top_country
\* hold the maximal summed total_laid_off of their grouping, and on a tie are
\* the first in grouping order, whatever the order of the rows.
C10_FirstMaximum ==
    (pc = "shown" /\ view.filtered # <<>>) =>
        /\ IsIntegral(view.summary.peak_year)
        /\ FirstMaximal(view.filtered, "year", Trunc(view.summary.peak_year))
        /\ FirstMaximal(view.filtered, "industry", view.summary.top_industry)
        /\ FirstMaximal(view.filtered, "country", view.summary.top_country)

\* two years tie for the maximum, and the rows come latest year first
C10_Witness ==
    /\ pc = "shown"
    /\ Len(view.filtered) = 2
    /\ view.filtered[1].year > view.filtered[2].year
    /\ view.filtered[1].total_laid_off = view.filtered[2].total_laid_off
    /\ view.summary.peak_year = IntNum(view.filtered[2].year)

=============================================================================
